---- MODULE Spec2Model ----
(***************************************************************************)
(* VexusIndex (rust-vexus-lite/src/lib.rs): a tag-keyed vector store.      *)
(* A Mapping (tag <-> label, with an allocation counter) and a usearch     *)
(* Index sit behind two RwLocks; upsert/remove/search/get_vectors/stats    *)
(* run on the in-memory pair, save/load move it to and from two files.     *)
(* Threads call the methods concurrently; every lock acquisition, every    *)
(* file-system call and every loop iteration of a handler is one step.     *)
(***************************************************************************)
EXTENDS Integers, Sequences, FiniteSets, TLC

\* ---------------------------------------------------------------- bounds
Dim == 2
InitCapacity == 1
MaxBatch == 2
MaxWrites == 3
MaxSaves == 2
MaxReads == 2
MaxRows == 3
Few == 1

\* ------------------------------------------------------- program constants
F32Size == 4

Threads == {"t1", "t2"}
Tags == {"a", "b"}
None == "none"
Absent == "absent"
Partial == "partial"
Whole == "whole"

MapPath == "map"
IndexPath == "idx"
Tmp(path) == IF path = MapPath THEN "map.tmp" ELSE "idx.tmp"
Paths == {MapPath, IndexPath, Tmp(MapPath), Tmp(IndexPath)}

VARIABLES
    mapping,   \* [label_to_tag, tag_to_label, next_label]   (struct Mapping)
    index,     \* [vectors, capacity]                        (usearch::Index)
    mapLock,   \* RwLock around the mapping: [w, r]
    idxLock,   \* RwLock around the index:   [w, r]
    disk,      \* path -> [state, bytes, fds]
    pc,        \* thread -> position in its handler
    args,      \* thread -> arguments of the running call
    loc,       \* thread -> locals of the running call
    ret,       \* thread -> result of the running call, once decided
    snap,      \* thread -> mapping and index when the call's body began
    retired,   \* history: <<label, tag>> pairs taken out by Mapping::remove
    used,      \* history: calls started and faults injected so far
    limit      \* the bound on each field of `used` in this run

vars == <<mapping, index, mapLock, idxLock, disk, pc, args, loc, ret, snap,
          retired, used, limit>>

\* ----------------------------------------------------------------- helpers
EmptyFn == <<>>
Max(S) == CHOOSE x \in S : \A y \in S : y <= x
Without(f, k) == [x \in DOMAIN f \ {k} |-> f[x]]
With(f, k, v) == [x \in DOMAIN f \cup {k} |-> IF x = k THEN v ELSE f[x]]
Range(f) == {f[x] : x \in DOMAIN f}

UnitVec(k) == [j \in 1..Dim |-> IF j = k THEN 1 ELSE 0]
ZeroVec == [j \in 1..Dim |-> 0]
Vecs == {UnitVec(1), UnitVec(2)}

RECURSIVE Flat(_)
Flat(vs) == IF vs = <<>> THEN <<>> ELSE Head(vs) \o Flat(Tail(vs))

TagSeqs == UNION {[1..n -> Tags] : n \in 0..MaxBatch}
VecSeqs(n) == [1..n -> Vecs]

\* ------------------------------------------------------------------ Mapping
\* next_label is an AtomicU32: fetch_add wraps at 2^32, which MaxWrites calls
\* cannot reach, so the counter is a plain natural number here.
NewMapping == [label_to_tag |-> EmptyFn, tag_to_label |-> EmptyFn, next_label |-> 0]

\* mutant: the lookup of the existing label is lost
get_or_create_label_always_new(m, tag) ==
    LET new_label == m.next_label
    IN [mapping |-> [label_to_tag |-> With(m.label_to_tag, new_label, tag),
                     tag_to_label |-> With(m.tag_to_label, tag, new_label),
                     next_label   |-> m.next_label + 1],
        label |-> new_label]

\* mutant: the counter is read but not advanced
get_or_create_label_no_increment(m, tag) ==
    IF tag \in DOMAIN m.tag_to_label
    THEN [mapping |-> m, label |-> m.tag_to_label[tag]]
    ELSE [mapping |-> [m EXCEPT !.label_to_tag = With(@, m.next_label, tag),
                                !.tag_to_label = With(@, tag, m.next_label)],
          label |-> m.next_label]

get_or_create_label(m, tag) ==
    IF tag \in DOMAIN m.tag_to_label
    THEN [mapping |-> m, label |-> m.tag_to_label[tag]]
    ELSE LET new_label == m.next_label
         IN [mapping |-> [label_to_tag |-> With(m.label_to_tag, new_label, tag),
                          tag_to_label |-> With(m.tag_to_label, tag, new_label),
                          next_label   |-> m.next_label + 1],
             label |-> new_label]

get_tag(m, label) ==
    IF label \in DOMAIN m.label_to_tag THEN m.label_to_tag[label] ELSE None

\* mutant: label_to_tag keeps the entry
Mapping_remove_one_side(m, tag) ==
    IF tag \in DOMAIN m.tag_to_label
    THEN [mapping |-> [m EXCEPT !.tag_to_label = Without(@, tag)],
          found |-> TRUE, label |-> m.tag_to_label[tag]]
    ELSE [mapping |-> m, found |-> FALSE, label |-> 0]

\* mutant: an absent tag is reported as found, with the default label
Mapping_remove_default_label(m, tag) ==
    IF tag \in DOMAIN m.tag_to_label
    THEN [mapping |-> [label_to_tag |-> Without(m.label_to_tag, m.tag_to_label[tag]),
                       tag_to_label |-> Without(m.tag_to_label, tag),
                       next_label   |-> m.next_label],
          found |-> TRUE, label |-> m.tag_to_label[tag]]
    ELSE [mapping |-> m, found |-> TRUE, label |-> 0]

Mapping_remove(m, tag) ==
    IF tag \in DOMAIN m.tag_to_label
    THEN LET label == m.tag_to_label[tag]
         IN [mapping |-> [m EXCEPT !.tag_to_label = Without(@, tag),
                                   !.label_to_tag = Without(@, label)],
             found |-> TRUE, label |-> label]
    ELSE [mapping |-> m, found |-> FALSE, label |-> 0]

\* ------------------------------------------------- the engine (usearch::Index)
\* Every engine call may fail; a failed call leaves the engine as it was.
\* `fault` marks a failure the engine's state does not explain (out of
\* memory, I/O); a run admits at most limit.faults of them.
CanFault == used.faults < limit.faults
size(ix) == Cardinality(DOMAIN ix.vectors)
capacity(ix) == ix.capacity

Index_new == [vectors |-> EmptyFn, capacity |-> 0]

Index_reserve(ix, n) ==
    { [ok |-> TRUE, fault |-> 0, index |-> [ix EXCEPT !.capacity = n]] } \cup
    IF CanFault THEN { [ok |-> FALSE, fault |-> 1, index |-> ix] } ELSE {}

Index_add(ix, label, vector) ==
    IF label \notin DOMAIN ix.vectors /\ size(ix) < capacity(ix)
    THEN { [ok |-> TRUE, fault |-> 0,
            index |-> [ix EXCEPT !.vectors = With(@, label, vector)]] } \cup
         IF CanFault THEN { [ok |-> FALSE, fault |-> 1, index |-> ix] } ELSE {}
    ELSE { [ok |-> FALSE, fault |-> 0, index |-> ix] }

\* mutant: the engine reports a removal it has not done
Index_remove_keeps(ix, label) ==
    { [ok |-> TRUE, fault |-> 0, index |-> ix] } \cup
    IF CanFault THEN { [ok |-> FALSE, fault |-> 1, index |-> ix] } ELSE {}

Index_remove(ix, label) ==
    { [ok |-> TRUE, fault |-> 0, index |-> [ix EXCEPT !.vectors = Without(@, label)]] } \cup
    IF CanFault THEN { [ok |-> FALSE, fault |-> 1, index |-> ix] } ELSE {}

\* L2sq between two vectors of the index's dimension
L2sq(u, v) ==
    LET RECURSIVE Sum(_)
        Sum(j) == IF j = 0 THEN 0 ELSE (u[j] - v[j]) * (u[j] - v[j]) + Sum(j - 1)
    IN Sum(Dim)

\* The engine reads `dimensions` floats at the query's address: the first
\* Dim of a longer query, and past the end of a shorter one (any floats).
QueryRead(query) ==
    IF Len(query) >= Dim THEN {SubSeq(query, 1, Dim)}
    ELSE {query \o pad : pad \in [1..(Dim - Len(query)) -> {0, 1}]}

\* The k nearest keys, nearest first; keys at the same distance in any order
Nearest(ix, q, k) ==
    LET keys == DOMAIN ix.vectors
        n == IF k < Cardinality(keys) THEN k ELSE Cardinality(keys)
        d(key) == L2sq(ix.vectors[key], q)
    IN { ks \in [1..n -> keys] :
           /\ \A i, j \in 1..n : i < j => ks[i] # ks[j] /\ d(ks[i]) <= d(ks[j])
           /\ \A key \in keys \ Range(ks) : \A i \in 1..n : d(ks[i]) <= d(key) }

Index_search(ix, query, k) ==
    { [ok |-> TRUE, fault |-> 0, keys |-> ks,
       distances |-> [i \in DOMAIN ks |-> L2sq(ix.vectors[ks[i]], q)]]
        : <<q, ks>> \in UNION {{<<q, ks>> : ks \in Nearest(ix, q, k)} : q \in QueryRead(query)} }
    \cup IF CanFault THEN { [ok |-> FALSE, fault |-> 1, keys |-> <<>>, distances |-> <<>>] }
         ELSE {}

\* Index::get fills the buffer and returns the number of vectors found
Index_get(ix, label, buffer) ==
    IF label \in DOMAIN ix.vectors
    THEN [ok |-> TRUE, count |-> 1, buffer |-> ix.vectors[label]]
    ELSE [ok |-> TRUE, count |-> 0, buffer |-> buffer]

\* -------------------------------------------------------------------- RwLock
\* write() waits until no guard is out, read() until no write guard is out;
\* dropping a guard frees the lock for the next waiter.
FreeLock == [w |-> None, r |-> {}]
CanLock(l, mode) == IF mode = "write" THEN l.w = None /\ l.r = {} ELSE l.w = None
Lock(l, t, mode) == IF mode = "write" THEN [l EXCEPT !.w = t]
                    ELSE [l EXCEPT !.r = @ \cup {t}]
\* mutant: only a write guard is ever dropped
Unlock_write_guard_only(l, t) == [l EXCEPT !.w = IF l.w = t THEN None ELSE l.w]

Unlock(l, t) == [w |-> IF l.w = t THEN None ELSE l.w, r |-> l.r \ {t}]
Holds(l, t) == l.w = t \/ t \in l.r

\* which guard each method takes on each lock
upsert_mapping_lock == "write"
\* mutant: upsert takes only the shared guard on the engine
upsert_index_lock_shared == "read"

upsert_index_lock == "write"
remove_mapping_lock == "write"
remove_index_lock == "write"
save_mapping_lock == "read"
save_index_lock == "read"
search_mapping_lock == "read"
search_index_lock == "read"
get_vectors_mapping_lock == "read"
get_vectors_index_lock == "read"
stats_index_lock == "read"
recover_index_lock == "write"

\* ------------------------------------------------------------ thread locals
NoArgs == [op |-> None, tags |-> <<>>, floats |-> <<>>, extra |-> 0, k |-> 0, rows |-> <<>>]
Call(op) == [NoArgs EXCEPT !.op = op]
NoBytes == [kind |-> None, label_to_tag |-> EmptyFn, tag_to_label |-> EmptyFn,
            vectors |-> EmptyFn, ver |-> 0]
NoLoc == [i |-> 0, data |-> NoBytes, total |-> 0, count |-> 0, skipped |-> 0]
NoSnap == [taken |-> FALSE, mapping |-> [label_to_tag |-> EmptyFn, tag_to_label |-> EmptyFn, next_label |-> 0],
           index |-> [vectors |-> EmptyFn, capacity |-> 0]]
NoRet == [status |-> None, value |-> None]
Ok(v) == [status |-> "ok", value |-> v]
Err(why) == [status |-> "err", value |-> why]

Spend(what, n) == used' = [used EXCEPT ![what] = @ + n] /\ UNCHANGED limit

Goto(t, where) == pc' = [pc EXCEPT ![t] = where]
Finish(t, r) == /\ pc' = [pc EXCEPT ![t] = "ret"]
                /\ ret' = [ret EXCEPT ![t] = r]

\* -------------------------------------------------------------------- Init
\* VexusIndex::new(Dim, InitCapacity) succeeded; nothing was ever saved.
NewFile == [state |-> Absent, bytes |-> NoBytes, fds |-> {}]

\* `cap` and `failed` are no budgets: in `used`, `cap` holds the capacity
\* argument of the last load while the handle that load returned is in use,
\* 0 otherwise, and `failed` is 1 once an upsert or a remove has returned an
\* error.
Budget(w, s, l, f, r, c) ==
    [writes |-> w, saves |-> s, loads |-> l, faults |-> f, reads |-> r, crashes |-> c,
     recovers |-> 0, cap |-> 0, failed |-> 0]

InitWith(budget) ==
    /\ mapping = NewMapping
    /\ index = [vectors |-> EmptyFn, capacity |-> InitCapacity]
    /\ mapLock = FreeLock
    /\ idxLock = FreeLock
    /\ disk = [p \in Paths |-> NewFile]
    /\ pc = [t \in Threads |-> "idle"]
    /\ args = [t \in Threads |-> NoArgs]
    /\ loc = [t \in Threads |-> NoLoc]
    /\ ret = [t \in Threads |-> NoRet]
    /\ snap = [t \in Threads |-> NoSnap]
    /\ retired = {}
    /\ used = Budget(0, 0, 0, 0, 0, 0)
    /\ limit = budget

\* ------------------------------------------------------------------ upsert
\* The Buffer of a call: `floats` is what the f32 view of it holds
\* (len / size_of::<f32>() elements), `extra` the bytes left over.
\* mutant: the bytes left over after the last whole float are not counted
ByteLen_whole_floats(a) == Len(a.floats) * F32Size

ByteLen(a) == Len(a.floats) * F32Size + a.extra
vec_data(a) == SubSeq(a.floats, 1, ByteLen(a) \div F32Size)

\* Well-sized buffers for every batch of tags; for the batches of SizedTags
\* also a buffer one float too long, one float too short, and a well-sized
\* one followed by a stray byte.
BatchVecs(n) == IF n <= 1 THEN VecSeqs(n)
                ELSE {vs \in VecSeqs(n) : vs[1] # vs[2]}
SizedTags == {tags \in TagSeqs : \A j \in 1..Len(tags) : tags[j] = "a"}
Zeros(n) == Flat([j \in 1..n |-> ZeroVec])

UpsertInputs ==
    { [Call("upsert") EXCEPT !.tags = tags, !.floats = Flat(vs)]
        : <<tags, vs>> \in UNION {{<<tg, vs>> : vs \in BatchVecs(Len(tg))} : tg \in TagSeqs} }
    \cup { [Call("upsert") EXCEPT !.tags = tags, !.floats = Zeros(Len(tags)) \o <<0>>] : tags \in SizedTags }
    \cup { [Call("upsert") EXCEPT !.tags = tags, !.floats = Tail(Zeros(Len(tags)))]
             : tags \in SizedTags \ {<<>>} }
    \cup { [Call("upsert") EXCEPT !.tags = tags, !.floats = Flat([j \in 1..Len(tags) |-> UnitVec(1)]),
                          !.extra = 1] : tags \in SizedTags }

\* self.mapping.write()
UpsertLockMapping(t) ==
    /\ pc[t] = "idle"
    /\ used.writes < limit.writes
    /\ CanLock(mapLock, upsert_mapping_lock)
    /\ \E a \in UpsertInputs : args' = [args EXCEPT ![t] = a]
    /\ mapLock' = Lock(mapLock, t, upsert_mapping_lock)
    /\ Spend("writes", 1)
    /\ Goto(t, "upsert_index_write")
    /\ UNCHANGED <<mapping, index, idxLock, disk, loc, ret, snap, retired>>

\* mutant: only a buffer that is too short is refused
SizeMismatch_too_short(a) == Len(vec_data(a)) < Len(a.tags) * Dim

SizeMismatch(a) == Len(vec_data(a)) # Len(a.tags) * Dim

\* mutant: the store also grows when the batch just fits
NeedsReserve_when_full(required_capacity, current_capacity) ==
    required_capacity >= current_capacity

NeedsReserve(required_capacity, current_capacity) ==
    required_capacity > current_capacity

\* mutant: the reserve is sized to half of the requirement
new_capacity_half(required_capacity) == required_capacity \div 2

\* (required_capacity as f64 * 1.5) as usize
new_capacity(required_capacity) == (required_capacity * 3) \div 2

EnterLoop(t, n) ==
    IF n = 0
    THEN Finish(t, Ok(None)) /\ UNCHANGED loc
    ELSE /\ Goto(t, "upsert_loop")
         /\ loc' = [loc EXCEPT ![t].i = 1]
         /\ UNCHANGED ret

\* self.index.write(), then the size check and the capacity check with its
\* reserve: all of it runs under both write locks
UpsertLockIndex(t) ==
    /\ pc[t] = "upsert_index_write"
    /\ CanLock(idxLock, upsert_index_lock)
    /\ idxLock' = Lock(idxLock, t, upsert_index_lock)
    /\ snap' = [snap EXCEPT ![t] = [taken |-> TRUE, mapping |-> mapping, index |-> index]]
    /\ LET num_vectors == Len(args[t].tags)
           required_capacity == size(index) + num_vectors
       IN IF SizeMismatch(args[t])
          THEN /\ Finish(t, Err("size mismatch"))
               /\ UNCHANGED <<index, loc, used, limit>>
          ELSE IF NeedsReserve(required_capacity, capacity(index))
          THEN \E r \in Index_reserve(index, new_capacity(required_capacity)) :
                 /\ index' = r.index
                 /\ Spend("faults", r.fault)
                 /\ IF r.ok THEN EnterLoop(t, num_vectors)
                    ELSE Finish(t, Err("reserve")) /\ UNCHANGED loc
          ELSE /\ UNCHANGED <<index, used, limit>>
               /\ EnterLoop(t, num_vectors)
    /\ UNCHANGED <<mapping, mapLock, disk, args, retired>>

\* mutant: every item is given the first vector of the buffer
vector_first(a, i) == SubSeq(vec_data(a), 1, Dim)

\* &vec_data[vector_start..vector_start + vec_dim], vector_start = i * vec_dim
\* for the 0-based i of the code; positions are 1-based here
vector(a, i) == SubSeq(vec_data(a), (i - 1) * Dim + 1, i * Dim)

\* one iteration of `for (i, tag) in tags.iter().enumerate()`
UpsertItem(t) ==
    /\ pc[t] = "upsert_loop"
    /\ LET i == loc[t].i
           tag == args[t].tags[i]
           g == get_or_create_label(mapping, tag)
       IN \E rm \in Index_remove(index, g.label) :
          \E ad \in Index_add(rm.index, g.label, vector(args[t], i)) :
            /\ mapping' = g.mapping
            /\ index' = ad.index
            /\ rm.fault + ad.fault <= limit.faults - used.faults
            /\ Spend("faults", rm.fault + ad.fault)
            /\ IF ~ad.ok
               THEN Finish(t, Err("add")) /\ UNCHANGED loc
               ELSE IF i = Len(args[t].tags)
               THEN Finish(t, Ok(None)) /\ UNCHANGED loc
               ELSE /\ loc' = [loc EXCEPT ![t].i = i + 1]
                    /\ UNCHANGED <<pc, ret>>
    /\ UNCHANGED <<mapLock, idxLock, disk, args, snap, retired>>

\* ------------------------------------------------------------------ remove
\* self.mapping.write()
RemoveLockMapping(t) ==
    /\ pc[t] = "idle"
    /\ used.writes < limit.writes
    /\ CanLock(mapLock, remove_mapping_lock)
    /\ \E tags \in TagSeqs : args' = [args EXCEPT ![t] = [Call("remove") EXCEPT !.tags = tags]]
    /\ mapLock' = Lock(mapLock, t, remove_mapping_lock)
    /\ Spend("writes", 1)
    /\ Goto(t, "remove_index_write")
    /\ UNCHANGED <<mapping, index, idxLock, disk, loc, ret, snap, retired>>

\* self.index.write()
RemoveLockIndex(t) ==
    /\ pc[t] = "remove_index_write"
    /\ CanLock(idxLock, remove_index_lock)
    /\ idxLock' = Lock(idxLock, t, remove_index_lock)
    /\ snap' = [snap EXCEPT ![t] = [taken |-> TRUE, mapping |-> mapping, index |-> index]]
    /\ IF args[t].tags = <<>>
       THEN Finish(t, Ok(None)) /\ UNCHANGED loc
       ELSE /\ Goto(t, "remove_loop")
            /\ loc' = [loc EXCEPT ![t].i = 1]
            /\ UNCHANGED ret
    /\ UNCHANGED <<mapping, index, mapLock, disk, args, retired, used, limit>>

\* one iteration of `for tag in tags`
RemoveItem(t) ==
    /\ pc[t] = "remove_loop"
    /\ LET i == loc[t].i
           tag == args[t].tags[i]
           m == Mapping_remove(mapping, tag)
           Continue == IF i = Len(args[t].tags)
                       THEN Finish(t, Ok(None)) /\ UNCHANGED loc
                       ELSE /\ loc' = [loc EXCEPT ![t].i = i + 1]
                            /\ UNCHANGED <<pc, ret>>
       IN IF ~m.found
          THEN /\ UNCHANGED <<mapping, index, retired, used, limit>>
               /\ Continue
          ELSE /\ mapping' = m.mapping
               /\ retired' = retired \cup {<<m.label, tag>>}
               /\ \E rm \in Index_remove(index, m.label) :
                    /\ index' = rm.index
                    /\ Spend("faults", rm.fault)
                    /\ IF rm.ok THEN Continue
                       ELSE Finish(t, Err("remove")) /\ UNCHANGED loc
    /\ UNCHANGED <<mapLock, idxLock, disk, args, snap>>

\* ------------------------------------------------------------------ search
SearchInputs ==
    { [Call("search") EXCEPT !.floats = q, !.k = k]
        : q \in Vecs \cup {SubSeq(UnitVec(1), 1, Dim - 1)}, k \in {1, 2} }

\* self.mapping.read()
SearchLockMapping(t) ==
    /\ pc[t] = "idle"
    /\ used.reads < limit.reads
    /\ CanLock(mapLock, search_mapping_lock)
    /\ \E a \in SearchInputs : args' = [args EXCEPT ![t] = a]
    /\ mapLock' = Lock(mapLock, t, search_mapping_lock)
    /\ Spend("reads", 1)
    /\ Goto(t, "search_index_read")
    /\ UNCHANGED <<mapping, index, idxLock, disk, loc, ret, snap, retired>>

\* mutant: the distance is returned as the score
RECURSIVE search_results_distance(_, _, _)
search_results_distance(m, keys, distances) ==
    IF keys = <<>> THEN <<>>
    ELSE LET tag == get_tag(m, Head(keys))
             rest == search_results_distance(m, Tail(keys), Tail(distances))
         IN IF tag # None
            THEN <<[tag |-> tag, score |-> Head(distances)]>> \o rest
            ELSE rest

\* the matches whose label has a tag, in the engine's order
RECURSIVE search_results(_, _, _)
search_results(m, keys, distances) ==
    IF keys = <<>> THEN <<>>
    ELSE LET tag == get_tag(m, Head(keys))
             rest == search_results(m, Tail(keys), Tail(distances))
         IN IF tag # None
            THEN <<[tag |-> tag, score |-> 1 - Head(distances)]>> \o rest
            ELSE rest

\* self.index.read(), index.search and the translation of the matches
SearchLockIndex(t) ==
    /\ pc[t] = "search_index_read"
    /\ CanLock(idxLock, search_index_lock)
    /\ idxLock' = Lock(idxLock, t, search_index_lock)
    /\ \E matches \in Index_search(index, args[t].floats, args[t].k) :
         /\ Spend("faults", matches.fault)
         /\ IF matches.ok
            THEN Finish(t, Ok(search_results(mapping, matches.keys, matches.distances)))
            ELSE Finish(t, Err("search"))
    /\ UNCHANGED <<mapping, index, mapLock, disk, args, loc, snap, retired>>

\* ------------------------------------------------------------- get_vectors
\* self.mapping.read()
GetVectorsLockMapping(t) ==
    /\ pc[t] = "idle"
    /\ used.reads < limit.reads
    /\ CanLock(mapLock, get_vectors_mapping_lock)
    /\ \E tags \in TagSeqs : args' = [args EXCEPT ![t] = [Call("get_vectors") EXCEPT !.tags = tags]]
    /\ mapLock' = Lock(mapLock, t, get_vectors_mapping_lock)
    /\ Spend("reads", 1)
    /\ Goto(t, "get_vectors_index_read")
    /\ UNCHANGED <<mapping, index, idxLock, disk, loc, ret, snap, retired>>

\* `for tag in tags`, with vector_buffer carried from one tag to the next
RECURSIVE all_vectors(_, _, _, _)
all_vectors(m, ix, tags, vector_buffer) ==
    IF tags = <<>> THEN <<>>
    ELSE LET tag == Head(tags)
         IN IF tag \in DOMAIN m.tag_to_label
            THEN LET g == Index_get(ix, m.tag_to_label[tag], vector_buffer)
                 IN IF g.ok
                    THEN g.buffer \o all_vectors(m, ix, Tail(tags), g.buffer)
                    ELSE ZeroVec \o all_vectors(m, ix, Tail(tags), g.buffer)
            ELSE ZeroVec \o all_vectors(m, ix, Tail(tags), vector_buffer)

\* self.index.read() and the loop
GetVectorsLockIndex(t) ==
    /\ pc[t] = "get_vectors_index_read"
    /\ CanLock(idxLock, get_vectors_index_lock)
    /\ idxLock' = Lock(idxLock, t, get_vectors_index_lock)
    /\ Finish(t, Ok(all_vectors(mapping, index, args[t].tags, ZeroVec)))
    /\ UNCHANGED <<mapping, index, mapLock, disk, args, loc, snap, retired, used, limit>>

\* ------------------------------------------------------------------- stats
\* self.index.read() and total_vectors: index.size()
StatsLockIndex(t) ==
    /\ pc[t] = "idle"
    /\ used.reads < limit.reads
    /\ CanLock(idxLock, stats_index_lock)
    /\ idxLock' = Lock(idxLock, t, stats_index_lock)
    /\ args' = [args EXCEPT ![t] = Call("stats")]
    /\ loc' = [loc EXCEPT ![t].total = size(index)]
    /\ Spend("reads", 1)
    /\ Goto(t, "stats_capacity")
    /\ UNCHANGED <<mapping, index, mapLock, disk, ret, snap, retired>>

\* capacity: index.capacity()
StatsCapacity(t) ==
    /\ pc[t] = "stats_capacity"
    /\ Finish(t, Ok([total_vectors |-> loc[t].total, dimensions |-> Dim,
                     capacity |-> capacity(index)]))
    /\ UNCHANGED <<mapping, index, mapLock, idxLock, disk, args, loc, snap, retired,
                   used, limit>>

\* -------------------------------------------------------------- file system
\* A path names a file: its state (Absent, Partial while a writer has created
\* or truncated it and not yet written it out, Whole once written), its bytes
\* and the threads that hold it open for writing.  rename moves the file with its
\* open descriptors; a writer whose file was replaced writes to no path.
\* Every call may fail and then changes nothing.
fs_create(d, t, path) ==
    { [ok |-> TRUE, fault |-> 0,
       disk |-> [d EXCEPT ![path] = [state |-> Partial, bytes |-> NoBytes,
                                     fds |-> @.fds \cup {t}]]] } \cup
    IF CanFault THEN { [ok |-> FALSE, fault |-> 1, disk |-> d] } ELSE {}

fs_close(d, t) ==
    [p \in Paths |-> [d[p] EXCEPT !.fds = @ \ {t}]]

fs_write_all(d, t, bytes) ==
    { [ok |-> TRUE, fault |-> 0,
       disk |-> [p \in Paths |-> IF t \in d[p].fds
                                 THEN [state |-> Whole, bytes |-> bytes, fds |-> d[p].fds \ {t}]
                                 ELSE d[p]]] } \cup
    IF CanFault THEN { [ok |-> FALSE, fault |-> 1, disk |-> fs_close(d, t)] } ELSE {}

fs_rename(d, from, to) ==
    IF d[from].state # Absent
    THEN { [ok |-> TRUE, fault |-> 0,
            disk |-> [d EXCEPT ![to] = d[from], ![from] = NewFile]] } \cup
         IF CanFault THEN { [ok |-> FALSE, fault |-> 1, disk |-> d] } ELSE {}
    ELSE { [ok |-> FALSE, fault |-> 0, disk |-> d] }

\* bincode::serialize(&*mapping): next_label is #[serde(skip)]
serialize(m) ==
    [NoBytes EXCEPT !.kind = "mapping", !.label_to_tag = m.label_to_tag,
                    !.tag_to_label = m.tag_to_label, !.ver = used.writes]

\* bincode::deserialize: the skipped field takes its default
deserialize(bytes) ==
    [label_to_tag |-> bytes.label_to_tag, tag_to_label |-> bytes.tag_to_label,
     next_label |-> 0]

\* Index::save writes the vectors; Index::load rebuilds an engine that holds
\* them, with room for exactly as many
Index_image(ix) == [NoBytes EXCEPT !.kind = "index", !.vectors = ix.vectors, !.ver = used.writes]
Index_load(bytes) ==
    [vectors |-> bytes.vectors, capacity |-> Cardinality(DOMAIN bytes.vectors)]

IsImage(f, kind) == f.state = Whole /\ f.bytes.kind = kind

\* -------------------------------------------------------------------- save
\* self.mapping.read() and bincode::serialize
SaveLockMapping(t) ==
    /\ pc[t] = "idle"
    /\ used.saves < limit.saves
    /\ CanLock(mapLock, save_mapping_lock)
    /\ mapLock' = Lock(mapLock, t, save_mapping_lock)
    /\ args' = [args EXCEPT ![t] = Call("save")]
    /\ loc' = [loc EXCEPT ![t].data = serialize(mapping)]
    /\ snap' = [snap EXCEPT ![t] = [taken |-> TRUE, mapping |-> mapping, index |-> index]]
    /\ Spend("saves", 1)
    /\ Goto(t, "save_map_create")
    /\ UNCHANGED <<mapping, index, idxLock, disk, ret, retired>>

\* std::fs::write(&temp_map_path, ..): create or truncate
SaveMapCreate(t) ==
    /\ pc[t] = "save_map_create"
    /\ \E f \in fs_create(disk, t, Tmp(MapPath)) :
         /\ disk' = f.disk
         /\ Spend("faults", f.fault)
         /\ IF f.ok THEN Goto(t, "save_map_write") /\ UNCHANGED ret
            ELSE Finish(t, Err("write mapping temp"))
    /\ UNCHANGED <<mapping, index, mapLock, idxLock, args, loc, snap, retired>>

\* std::fs::write(&temp_map_path, &map_data): write_all and close
SaveMapWrite(t) ==
    /\ pc[t] = "save_map_write"
    /\ \E f \in fs_write_all(disk, t, loc[t].data) :
         /\ disk' = f.disk
         /\ Spend("faults", f.fault)
         /\ IF f.ok THEN Goto(t, "save_map_rename") /\ UNCHANGED ret
            ELSE Finish(t, Err("write mapping temp"))
    /\ UNCHANGED <<mapping, index, mapLock, idxLock, args, loc, snap, retired>>

\* mutant: the mapping guard is dropped once the mapping file is in place
SaveMapRename_drops_mapping_guard(t) ==
    /\ pc[t] = "save_map_rename"
    /\ \E f \in fs_rename(disk, Tmp(MapPath), MapPath) :
         /\ disk' = f.disk
         /\ Spend("faults", f.fault)
         /\ IF f.ok THEN Goto(t, "save_index_read") /\ UNCHANGED ret
            ELSE Finish(t, Err("rename mapping"))
    /\ mapLock' = Unlock(mapLock, t)
    /\ UNCHANGED <<mapping, index, idxLock, args, loc, snap, retired>>

\* std::fs::rename(&temp_map_path, &map_path)
SaveMapRename(t) ==
    /\ pc[t] = "save_map_rename"
    /\ \E f \in fs_rename(disk, Tmp(MapPath), MapPath) :
         /\ disk' = f.disk
         /\ Spend("faults", f.fault)
         /\ IF f.ok THEN Goto(t, "save_index_read") /\ UNCHANGED ret
            ELSE Finish(t, Err("rename mapping"))
    /\ UNCHANGED <<mapping, index, mapLock, idxLock, args, loc, snap, retired>>

\* self.index.read()
SaveLockIndex(t) ==
    /\ pc[t] = "save_index_read"
    /\ CanLock(idxLock, save_index_lock)
    /\ idxLock' = Lock(idxLock, t, save_index_lock)
    /\ loc' = [loc EXCEPT ![t].data = Index_image(index)]
    /\ Goto(t, "save_index_create")
    /\ UNCHANGED <<mapping, index, mapLock, disk, args, ret, snap, retired, used, limit>>

\* index.save(&temp_index_path): create or truncate
SaveIndexCreate(t) ==
    /\ pc[t] = "save_index_create"
    /\ \E f \in fs_create(disk, t, Tmp(IndexPath)) :
         /\ disk' = f.disk
         /\ Spend("faults", f.fault)
         /\ IF f.ok THEN Goto(t, "save_index_write") /\ UNCHANGED ret
            ELSE Finish(t, Err("save index"))
    /\ UNCHANGED <<mapping, index, mapLock, idxLock, args, loc, snap, retired>>

\* index.save(&temp_index_path): write out and close
SaveIndexWrite(t) ==
    /\ pc[t] = "save_index_write"
    /\ \E f \in fs_write_all(disk, t, loc[t].data) :
         /\ disk' = f.disk
         /\ Spend("faults", f.fault)
         /\ IF f.ok THEN Goto(t, "save_index_rename") /\ UNCHANGED ret
            ELSE Finish(t, Err("save index"))
    /\ UNCHANGED <<mapping, index, mapLock, idxLock, args, loc, snap, retired>>

\* std::fs::rename(&temp_index_path, &index_path)
SaveIndexRename(t) ==
    /\ pc[t] = "save_index_rename"
    /\ \E f \in fs_rename(disk, Tmp(IndexPath), IndexPath) :
         /\ disk' = f.disk
         /\ Spend("faults", f.fault)
         /\ IF f.ok THEN Finish(t, Ok(None))
            ELSE Finish(t, Err("rename index"))
    /\ UNCHANGED <<mapping, index, mapLock, idxLock, args, loc, snap, retired>>

\* -------------------------------------------------------------------- load
LoadCaps == {InitCapacity, InitCapacity + 2}

\* mutant: the counter is restored to the largest label itself
restore_next_label_max(m) ==
    IF DOMAIN m.label_to_tag # {}
    THEN [m EXCEPT !.next_label = Max(DOMAIN m.label_to_tag)]
    ELSE m

restore_next_label(m) ==
    IF DOMAIN m.label_to_tag # {}
    THEN [m EXCEPT !.next_label = Max(DOMAIN m.label_to_tag) + 1]
    ELSE m

\* mutant: the loaded index keeps the capacity of the snapshot
load_no_reserve(d, cap) ==
    IF ~IsImage(d[MapPath], "mapping") THEN { [ok |-> FALSE, fault |-> 0, mapping |-> NewMapping, index |-> Index_new] }
    ELSE IF ~IsImage(d[IndexPath], "index") THEN { [ok |-> FALSE, fault |-> 0, mapping |-> NewMapping, index |-> Index_new] }
    ELSE { [ok |-> TRUE, fault |-> 0, mapping |-> restore_next_label(deserialize(d[MapPath].bytes)),
            index |-> Index_load(d[IndexPath].bytes)] }

\* What VexusIndex::load(IndexPath, MapPath, Dim, cap) can return on disk d
load(d, cap) ==
    IF ~IsImage(d[MapPath], "mapping") THEN { [ok |-> FALSE, fault |-> 0, mapping |-> NewMapping, index |-> Index_new] }
    ELSE IF ~IsImage(d[IndexPath], "index") THEN { [ok |-> FALSE, fault |-> 0, mapping |-> NewMapping, index |-> Index_new] }
    ELSE LET m == restore_next_label(deserialize(d[MapPath].bytes))
             temp_index == Index_load(d[IndexPath].bytes)
         IN IF cap > capacity(temp_index)
            THEN { [ok |-> r.ok, fault |-> r.fault, mapping |-> m, index |-> r.index]
                   : r \in Index_reserve(temp_index, cap) }
            ELSE { [ok |-> TRUE, fault |-> 0, mapping |-> m, index |-> temp_index] }

\* A caller with no call in flight replaces its handle by a loaded one.
Load ==
    /\ \A t \in Threads : pc[t] = "idle"
    /\ used.loads < limit.loads
    /\ \E cap \in LoadCaps : \E l \in load(disk, cap) :
         /\ used' = [used EXCEPT !.loads = @ + 1, !.faults = @ + l.fault,
                                 !.cap = IF l.ok THEN cap ELSE 0]
         /\ UNCHANGED limit
         /\ IF l.ok THEN mapping' = l.mapping /\ index' = l.index
            ELSE UNCHANGED <<mapping, index>>
    /\ UNCHANGED <<mapLock, idxLock, disk, pc, args, loc, ret, snap, retired>>

\* The process dies at any point and starts again with VexusIndex::new:
\* the files stay as they are, every descriptor is closed.
Crash ==
    /\ \E t \in Threads : pc[t] # "idle"
    /\ used.crashes < limit.crashes
    /\ used' = [used EXCEPT !.crashes = @ + 1, !.cap = 0]
    /\ UNCHANGED limit
    /\ mapping' = NewMapping
    /\ index' = [vectors |-> EmptyFn, capacity |-> InitCapacity]
    /\ mapLock' = FreeLock
    /\ idxLock' = FreeLock
    /\ disk' = [p \in Paths |-> [disk[p] EXCEPT !.fds = {}]]
    /\ pc' = [t \in Threads |-> "idle"]
    /\ args' = [t \in Threads |-> NoArgs]
    /\ loc' = [t \in Threads |-> NoLoc]
    /\ ret' = [t \in Threads |-> NoRet]
    /\ snap' = [t \in Threads |-> NoSnap]
    /\ retired' = {}

\* ---------------------------------------------------------------- recovery
\* The Recovery Procedure of the design document, section 4.4: the rows of
\* the external store are inserted under their row ids, engine write lock
\* held from the first row to the last. A row is (row_id, raw_vector_bytes);
\* the bytes are a Buffer as in upsert: `floats` and the `extra` bytes left.
RowIds == {0, 1, 5}
RowShapes == { [floats |-> UnitVec(1), extra |-> 0],
               [floats |-> <<1>>, extra |-> 0],
               [floats |-> UnitVec(2), extra |-> 1] }
\* the rows of a run come in the order of their ids, no id twice
Rows == { [id |-> id, floats |-> sh.floats, extra |-> sh.extra] : id \in RowIds, sh \in RowShapes }
RowSeqs ==
    UNION { { rs \in [1..n -> Rows] : \A i, j \in 1..n : i < j => rs[i].id < rs[j].id }
            : n \in 0..MaxRows }

\* len(raw_vector_bytes) != dimension * sizeof(float32)
RowSkip(row) == ByteLen(row) # Dim * F32Size

\* current_size + 1 >= current_capacity, and ceil(current_capacity * 1.5)
RecoverNeedsReserve(current_size, current_capacity) == current_size + 1 >= current_capacity
recover_new_capacity(current_capacity) == (current_capacity * 3 + 1) \div 2

\* Step 1 and 2: Idle -> Running, or Failed at once when the external store
\* cannot be opened; the rows selected are the input of the run.
RecoverOpen(t) ==
    /\ pc[t] = "idle"
    /\ used.recovers < limit.recovers
    /\ \/ /\ CanFault
          /\ args' = [args EXCEPT ![t] = Call("recover")]
          /\ used' = [used EXCEPT !.recovers = @ + 1, !.faults = @ + 1]
          /\ UNCHANGED limit
          /\ Finish(t, Err("open"))
       \/ /\ \E rows \in RowSeqs :
               args' = [args EXCEPT ![t] = [Call("recover") EXCEPT !.rows = rows]]
          /\ Spend("recovers", 1)
          /\ Goto(t, "recover_index_write")
          /\ UNCHANGED ret
    /\ UNCHANGED <<mapping, index, mapLock, idxLock, disk, loc, snap, retired>>

\* the engine's write lock, held for the whole bulk insert
RecoverLockIndex(t) ==
    /\ pc[t] = "recover_index_write"
    /\ CanLock(idxLock, recover_index_lock)
    /\ idxLock' = Lock(idxLock, t, recover_index_lock)
    /\ snap' = [snap EXCEPT ![t] = [taken |-> TRUE, mapping |-> mapping, index |-> index]]
    /\ IF args[t].rows = <<>>
       THEN Finish(t, Ok([count |-> 0, skipped |-> 0])) /\ UNCHANGED loc
       ELSE /\ Goto(t, "recover_loop")
            /\ loc' = [loc EXCEPT ![t].i = 1]
            /\ UNCHANGED ret
    /\ UNCHANGED <<mapping, index, mapLock, disk, args, retired, used, limit>>

\* Running -> Completed(count) after the last row
RecoverAdvance(t, count, skipped) ==
    IF loc[t].i = Len(args[t].rows)
    THEN Finish(t, Ok([count |-> count, skipped |-> skipped])) /\ UNCHANGED loc
    ELSE /\ loc' = [loc EXCEPT ![t].i = @ + 1, ![t].count = count, ![t].skipped = skipped]
         /\ UNCHANGED <<pc, ret>>

\* Step 3, one row: a row of the wrong size is skipped and counted; any other
\* row is inserted under its id after the growth check of a single insert
\* (a reserve that fails does not stop the insert). An insert the engine
\* rejects is an EngineError, which is surfaced: Running -> Failed.
RecoverRow(t) ==
    /\ pc[t] = "recover_loop"
    /\ LET row == args[t].rows[loc[t].i]
       IN IF RowSkip(row)
          THEN /\ RecoverAdvance(t, loc[t].count, loc[t].skipped + 1)
               /\ UNCHANGED <<index, used, limit>>
          ELSE \E rs \in IF RecoverNeedsReserve(size(index), capacity(index))
                         THEN Index_reserve(index, recover_new_capacity(capacity(index)))
                         ELSE { [ok |-> TRUE, fault |-> 0, index |-> index] } :
               \E ad \in Index_add(rs.index, row.id, row.floats) :
                 /\ index' = ad.index
                 /\ rs.fault + ad.fault <= limit.faults - used.faults
                 /\ Spend("faults", rs.fault + ad.fault)
                 /\ IF ad.ok
                    THEN RecoverAdvance(t, loc[t].count + 1, loc[t].skipped)
                    ELSE Finish(t, Err("add")) /\ UNCHANGED loc
    /\ UNCHANGED <<mapping, mapLock, idxLock, disk, args, snap, retired>>

Recover(t) ==
    \/ RecoverOpen(t)
    \/ RecoverLockIndex(t)
    \/ RecoverRow(t)

\* ------------------------------------------------------------------ return
\* The call returns: its guards drop, its result goes to the caller.
Return(t) ==
    /\ pc[t] = "ret"
    /\ mapLock' = Unlock(mapLock, t)
    /\ idxLock' = Unlock(idxLock, t)
    /\ pc' = [pc EXCEPT ![t] = "idle"]
    /\ args' = [args EXCEPT ![t] = NoArgs]
    /\ loc' = [loc EXCEPT ![t] = NoLoc]
    /\ ret' = [ret EXCEPT ![t] = NoRet]
    /\ snap' = [snap EXCEPT ![t] = NoSnap]
    /\ used' = [used EXCEPT !.failed = IF /\ args[t].op \in {"upsert", "remove"}
                                          /\ ret[t].status = "err"
                                       THEN 1 ELSE @]
    /\ UNCHANGED <<mapping, index, disk, retired, limit>>

\* ------------------------------------------------------- specifications
Write(t) ==
    \/ UpsertLockMapping(t)
    \/ UpsertLockIndex(t)
    \/ UpsertItem(t)
    \/ RemoveLockMapping(t)
    \/ RemoveLockIndex(t)
    \/ RemoveItem(t)

Save(t) ==
    \/ SaveLockMapping(t)
    \/ SaveMapCreate(t)
    \/ SaveMapWrite(t)
    \/ SaveMapRename(t)
    \/ SaveLockIndex(t)
    \/ SaveIndexCreate(t)
    \/ SaveIndexWrite(t)
    \/ SaveIndexRename(t)

Read(t) ==
    \/ SearchLockMapping(t)
    \/ SearchLockIndex(t)
    \/ GetVectorsLockMapping(t)
    \/ GetVectorsLockIndex(t)
    \/ StatsLockIndex(t)
    \/ StatsCapacity(t)

\* The store and its files: upsert, remove, save on two threads, and load.
Next ==
    \/ \E t \in Threads : Write(t) \/ Save(t) \/ Return(t)
    \/ Load

Init == InitWith(Budget(MaxWrites, Few, Few, Few, 0, 0))
Spec == Init /\ [][Next]_vars

\* Saves in flight together, and the process dying under them.
NextCrash == Next \/ Crash

InitSave == InitWith(Budget(Few, MaxSaves, Few, Few, 0, Few))
SpecSave == InitSave /\ [][NextCrash]_vars

\* Every method of the store, called from two threads.
NextAll ==
    \/ \E t \in Threads : Write(t) \/ Save(t) \/ Read(t) \/ Return(t)
    \/ Load

InitConc == InitWith(Budget(Few, Few, Few, Few, MaxReads, 0))
SpecConc == InitConc /\ [][NextAll]_vars

\* Upserts and removes followed by reads, without the files.
NextQuery == \E t \in Threads : Write(t) \/ Read(t) \/ Return(t)

InitQuery == InitWith(Budget(MaxWrites, 0, 0, Few, Few, 0))
SpecQuery == InitQuery /\ [][NextQuery]_vars

\* A store filled by upserts and by a recovery run, on two threads.
NextRecover == \E t \in Threads : Write(t) \/ Recover(t) \/ Return(t)

InitRecover == InitWith([Budget(Few, 0, 0, Few, 0, 0) EXCEPT !.recovers = Few])
SpecRecover == InitRecover /\ [][NextRecover]_vars

\* ------------------------------------------------------------------ claims
Returned(t, op) == pc[t] = "ret" /\ args[t].op = op
ReturnedOk(t, op) == Returned(t, op) /\ ret[t].status = "ok"
Labels(m) == DOMAIN m.label_to_tag
Keys(ix) == DOMAIN ix.vectors

\* C1: in every reachable state the two maps are exact inverses:
\* tag_to_label[t] = l if and only if label_to_tag[l] = t.
C1_MapsInverse ==
    /\ \A tag \in DOMAIN mapping.tag_to_label :
         /\ mapping.tag_to_label[tag] \in DOMAIN mapping.label_to_tag
         /\ mapping.label_to_tag[mapping.tag_to_label[tag]] = tag
    /\ \A label \in DOMAIN mapping.label_to_tag :
         /\ mapping.label_to_tag[label] \in DOMAIN mapping.tag_to_label
         /\ mapping.tag_to_label[mapping.label_to_tag[label]] = label

\* both tags are mapped in a store that was loaded, after a removal and a
\* call that failed
C1_Witness ==
    /\ DOMAIN mapping.tag_to_label = Tags
    /\ used.loads > 0 /\ used.faults > 0 /\ retired # {}

\* C2: a label once assigned to a tag that was later removed is never
\* afterwards assigned to a different tag, a loaded store included.
C2_NeverReused ==
    \A pair \in retired :
        pair[1] \in DOMAIN mapping.label_to_tag => mapping.label_to_tag[pair[1]] = pair[2]

\* C3: get_or_create is idempotent.  Each iteration of upsert's loop leaves
\* the mapping as it is and returns the recorded label when the tag is known,
\* and adds exactly one fresh label when it is not; no step of upsert, remove
\* or save changes the label of a tag that stays mapped; and a batch that
\* names one new tag twice ends with one more label and one more engine key.
C3_ItemStep(t) ==
    LET tag == args[t].tags[loc[t].i]
    IN IF tag \in DOMAIN mapping.tag_to_label
       THEN /\ mapping' = mapping
            /\ Keys(index') \subseteq Keys(index) \cup {mapping.tag_to_label[tag]}
       ELSE /\ Cardinality(Labels(mapping')) = Cardinality(Labels(mapping)) + 1
            /\ tag \in DOMAIN mapping'.tag_to_label
            /\ mapping'.tag_to_label[tag] \notin Labels(mapping)
            /\ \A other \in DOMAIN mapping.tag_to_label :
                 mapping'.tag_to_label[other] = mapping.tag_to_label[other]

C3_SameTagTwice(t) ==
    /\ ReturnedOk(t, "upsert")
    /\ Len(args[t].tags) = 2
    /\ args[t].tags[1] = args[t].tags[2]
    /\ args[t].tags[1] \notin DOMAIN snap[t].mapping.tag_to_label

C4_Mismatch(t) ==
    /\ Returned(t, "upsert")
    /\ ByteLen(args[t]) \div F32Size # Len(args[t].tags) * Dim

C4_MismatchMutatesNothing ==
    \A t \in Threads : C4_Mismatch(t) =>
        /\ ret[t] = Err("size mismatch")
        /\ mapping = snap[t].mapping
        /\ index = snap[t].index

\* a rejected call on a store that already holds a vector
C4_Witness == \E t \in Threads : C4_Mismatch(t) /\ size(index) > 0

\* C5: every buffer whose length in bytes differs from count * dimension * 4,
\* a length that is no multiple of 4 included, makes upsert return an error
\* and insert nothing.
C5_WrongByteLengthRejected ==
    \A t \in Threads :
        Returned(t, "upsert") /\ ByteLen(args[t]) # Len(args[t].tags) * Dim * F32Size =>
            /\ ret[t].status = "err"
            /\ mapping = snap[t].mapping
            /\ index = snap[t].index

\* C6: after a save that returned success, a load of the same two paths
\* succeeds and yields the tag <-> label pairs and the vector of every label
\* that the saved store holds.
C6_RoundTrip ==
    \A t \in Threads : ReturnedOk(t, "save") =>
        \A cap \in LoadCaps : \A l \in load(disk, cap) :
            l.fault = 0 =>
                /\ l.ok
                /\ l.mapping.tag_to_label = mapping.tag_to_label
                /\ l.mapping.label_to_tag = mapping.label_to_tag
                /\ l.index.vectors = index.vectors

\* C7: at every step of a save, and after an interruption or an error at any
\* step, neither final path holds a partially written file.
C7_FinalNeverPartial ==
    /\ disk[MapPath].state # Partial
    /\ disk[IndexPath].state # Partial

\* C8: a save that has committed its mapping and not yet its engine snapshot
\* (it is between the two renames, or returned an error from the second
\* sequence) has left the mapping file at the new state and the engine file
\* at an earlier complete one; the engine file is never newer than the
\* mapping file.
C8_Between(t) ==
    \/ pc[t] \in {"save_index_read", "save_index_create", "save_index_write",
                  "save_index_rename"}
    \/ Returned(t, "save") /\ ret[t] \in {Err("save index"), Err("rename index")}

C8_MappingFirst ==
    /\ \A t \in Threads : C8_Between(t) =>
         /\ IsImage(disk[MapPath], "mapping")
         /\ disk[MapPath].bytes = serialize(mapping)
         /\ disk[IndexPath].state # Partial
    /\ IsImage(disk[MapPath], "mapping") /\ IsImage(disk[IndexPath], "index")
         => disk[IndexPath].bytes.ver <= disk[MapPath].bytes.ver

\* C9: while an upsert or remove is past its lock acquisition no other thread
\* holds a guard on the mapping or on the engine; the count and the capacity
\* that stats returns are those of one state of the engine; and every result
\* a reader returns was computed from a state no writer was working on.
C9_InBatch(t) ==
    \/ pc[t] \in {"upsert_loop", "remove_loop"}
    \/ Returned(t, "upsert") \/ Returned(t, "remove")

C9_Reading(t) ==
    \/ pc[t] = "stats_capacity"
    \/ Returned(t, "stats") \/ Returned(t, "search") \/ Returned(t, "get_vectors")

C9_WritersExclude ==
    /\ \A t \in Threads : C9_InBatch(t) =>
         \A u \in Threads \ {t} : ~Holds(mapLock, u) /\ ~Holds(idxLock, u)
    /\ \A t \in Threads : C9_Reading(t) =>
         \A u \in Threads \ {t} : ~C9_InBatch(u)
    /\ \A t \in Threads : Returned(t, "stats") =>
         /\ ret[t].value.total_vectors = size(index)
         /\ ret[t].value.capacity = capacity(index)

\* stats has returned the engine's figures while an upsert that took the
\* mapping waits for the engine
C9_Witness ==
    \E t, u \in Threads :
        /\ Returned(t, "stats")
        /\ pc[u] = "upsert_index_write"

\* C10 as stated: an upsert of one new tag called with
\* current_size + 1 >= current_capacity reserves more capacity before it
\* inserts.
C10_Entered(t) == pc[t] = "upsert_loop" /\ loc[t].i = 1

C10_GrowthAtCapacity ==
    \A t \in Threads :
        ( /\ C10_Entered(t)
          /\ Len(args[t].tags) = 1
          /\ args[t].tags[1] \notin DOMAIN snap[t].mapping.tag_to_label
          /\ size(snap[t].index) + 1 >= capacity(snap[t].index) )
        => capacity(index) > capacity(snap[t].index)

\* C10 as amended: the reserve happens exactly when
\* current_size + count > current_capacity; an upsert that reaches its first
\* insert then has the capacity floor(1.5 * (current_size + count)), and one
\* called with current_size + count <= current_capacity (current_size + 1 =
\* current_capacity included) has the capacity it was called with.
C10_GrowthOverCapacity ==
    \A t \in Threads : C10_Entered(t) =>
        LET before == snap[t].index
            required == size(before) + Len(args[t].tags)
        IN /\ index.vectors = before.vectors
           /\ IF required > capacity(before)
              THEN /\ capacity(index) = (required * 3) \div 2
                   /\ capacity(index) > capacity(before)
              ELSE capacity(index) = capacity(before)

\* one new tag, called with current_size + 1 > current_capacity, has grown
C10_Witness ==
    \E t \in Threads :
        /\ C10_Entered(t)
        /\ Len(args[t].tags) = 1
        /\ args[t].tags[1] \notin DOMAIN snap[t].mapping.tag_to_label
        /\ size(snap[t].index) + 1 > capacity(snap[t].index)
        /\ capacity(index) > capacity(snap[t].index)


\* C11: an upsert of count tags that grows the capacity does so once, before
\* its first insert: from its first iteration to its return the capacity is
\* floor(1.5 * (current_size + count)), which is more than the capacity the
\* call found and at least current_size + count; the growth leaves every
\* vector in place, and every tag upserted before the call that the batch
\* does not name keeps its label and its vector to the end of the call.
C11_Grown(t) ==
    /\ args[t].op = "upsert"
    /\ pc[t] = "upsert_loop" \/ (pc[t] = "ret" /\ ret[t] # Err("reserve"))
    /\ ~SizeMismatch(args[t])
    /\ size(snap[t].index) + Len(args[t].tags) > capacity(snap[t].index)

C11_KeptTags(t) ==
    { tag \in DOMAIN snap[t].mapping.tag_to_label :
        /\ tag \notin Range(args[t].tags)
        /\ snap[t].mapping.tag_to_label[tag] \in Keys(snap[t].index) }

C11_GrowsOnce ==
    \A t \in Threads : C11_Grown(t) =>
        LET before == snap[t].index
            required == size(before) + Len(args[t].tags)
        IN /\ capacity(index) = (required * 3) \div 2
           /\ capacity(index) > capacity(before)
           /\ capacity(index) >= required
           /\ C10_Entered(t) => index.vectors = before.vectors /\ mapping = snap[t].mapping
           /\ \A tag \in C11_KeptTags(t) :
                LET label == snap[t].mapping.tag_to_label[tag]
                IN /\ tag \in DOMAIN mapping.tag_to_label
                   /\ mapping.tag_to_label[tag] = label
                   /\ label \in Keys(index)
                   /\ index.vectors[label] = before.vectors[label]

\* a batch of two that grew a store already holding another tag's vector
\* has returned
C11_Witness ==
    \E t \in Threads :
        /\ C11_Grown(t) /\ ReturnedOk(t, "upsert")
        /\ Len(args[t].tags) = 2
        /\ C11_KeptTags(t) # {}

\* C12: a failure to grow the capacity does not abort the insert: every
\* upsert of a well-sized, non-empty batch that returns has gone on to its
\* inserts, and its outcome is the one the engine's add decided.
C12_ReserveFailureGoesOn ==
    \A t \in Threads :
        ( /\ Returned(t, "upsert")
          /\ ~SizeMismatch(args[t])
          /\ args[t].tags # <<>> )
        => /\ ret[t] \in {Ok(None), Err("add")}
           /\ args[t].tags[1] \in DOMAIN mapping.tag_to_label

\* C13 as amended: a batch is not atomic.  Tags are processed in the order
\* given: when the upsert is at position i, or has returned the engine's
\* rejection of the insert of its i-th tag, every tag before position i
\* other than the i-th tag itself is inserted (mapping entry and the vector
\* the batch gave it last), the i-th tag has a mapping entry, and every tag
\* the batch names only after position i, or not at all, is as the call
\* found it.
C13_InLoop(t) ==
    /\ args[t].op = "upsert"
    /\ pc[t] = "upsert_loop" \/ (pc[t] = "ret" /\ ret[t] \in {Ok(None), Err("add")})

C13_Rejected(t) == Returned(t, "upsert") /\ ret[t] = Err("add")

C13_Done(t) == IF pc[t] = "ret" /\ ret[t] = Ok(None) THEN Len(args[t].tags)
               ELSE loc[t].i - 1

C13_Failing(t) == IF C13_Rejected(t) THEN {args[t].tags[loc[t].i]} ELSE {}

C13_Last(t, tag) ==
    Max({k \in 1..C13_Done(t) : args[t].tags[k] = tag})

C13_SameAsBefore(t, tag) ==
    LET before == snap[t].mapping.tag_to_label
        now == mapping.tag_to_label
    IN /\ tag \in DOMAIN now <=> tag \in DOMAIN before
       /\ tag \in DOMAIN now =>
            /\ now[tag] = before[tag]
            /\ now[tag] \in Keys(index) <=> now[tag] \in Keys(snap[t].index)
            /\ now[tag] \in Keys(index) =>
                 index.vectors[now[tag]] = snap[t].index.vectors[now[tag]]

C14_LabelsOf(t) == {mapping.tag_to_label[tag] : tag \in Range(args[t].tags)}

C14_Last(t, tag) == Max({k \in 1..Len(args[t].tags) : args[t].tags[k] = tag})

C15_ItemStep(t) ==
    LET tag == args[t].tags[loc[t].i]
    IN IF tag \notin DOMAIN mapping.tag_to_label
       THEN /\ UNCHANGED <<mapping, index, used, retired>>
            /\ ret'[t].status # "err"
       ELSE LET label == mapping.tag_to_label[tag]
            IN /\ mapping'.tag_to_label = Without(mapping.tag_to_label, tag)
               /\ mapping'.label_to_tag = Without(mapping.label_to_tag, label)
               /\ mapping'.next_label = mapping.next_label
               /\ ret'[t].status # "err" => index' = [index EXCEPT !.vectors = Without(@, label)]

C15_AllAbsent(t) ==
    /\ Returned(t, "remove")
    /\ \A j \in 1..Len(args[t].tags) :
         args[t].tags[j] \notin DOMAIN snap[t].mapping.tag_to_label

C15_RemoveFrame ==
    /\ [][\A t \in Threads : RemoveItem(t) => C15_ItemStep(t)]_vars
    /\ [](\A t \in Threads :
            /\ C15_AllAbsent(t) =>
                 /\ ret[t] = Ok(None)
                 /\ mapping = snap[t].mapping
                 /\ index = snap[t].index
            /\ ReturnedOk(t, "remove") =>
                 \A tag \in Range(args[t].tags) :
                     /\ tag \notin DOMAIN mapping.tag_to_label
                     /\ tag \in DOMAIN snap[t].mapping.tag_to_label =>
                          /\ snap[t].mapping.tag_to_label[tag] \notin Labels(mapping)
                          /\ snap[t].mapping.tag_to_label[tag] \notin Keys(index))

\* a remove of one absent and one stored tag has succeeded
C15_Witness ==
    \E t \in Threads :
        /\ ReturnedOk(t, "remove")
        /\ \E j, k \in 1..Len(args[t].tags) :
             /\ args[t].tags[j] \notin DOMAIN snap[t].mapping.tag_to_label
             /\ args[t].tags[k] \in DOMAIN snap[t].mapping.tag_to_label
             /\ snap[t].mapping.tag_to_label[args[t].tags[k]] \in Keys(snap[t].index)

\* C16: get_vectors returns len(tags) * dimension floats in request order:
\* position i holds the stored vector of tags[i] when the tag is known and
\* its vector is in the engine, and a vector of all zeros otherwise; it
\* never returns an error.
C16_Expected(t, i) ==
    LET tag == args[t].tags[i]
    IN IF /\ tag \in DOMAIN mapping.tag_to_label
          /\ mapping.tag_to_label[tag] \in Keys(index)
       THEN index.vectors[mapping.tag_to_label[tag]]
       ELSE ZeroVec

C16_ZerosForMissing ==
    \A t \in Threads : Returned(t, "get_vectors") =>
        /\ ret[t].status = "ok"
        /\ Len(ret[t].value) = Len(args[t].tags) * Dim
        /\ \A i \in 1..Len(args[t].tags) :
             SubSeq(ret[t].value, (i - 1) * Dim + 1, i * Dim) = C16_Expected(t, i)

\* C17: a search whose query does not hold exactly `dimension` floats is
\* rejected by the store with an error, before the engine's search is
\* called.
C17_QueryLengthValidated ==
    \A t \in Threads :
        Returned(t, "search") /\ Len(args[t].floats) # Dim =>
            /\ ret[t].status = "err"
            /\ ret[t] # Err("search")

\* C18 as amended: a search returns at most k results, only tags that are in
\* the mapping at the time of the call (so no tag taken out by a remove and
\* not upserted again), each with score = 1 - distance of the tag's stored
\* vector, nearest first; and a search for the exact vector of a present tag
\* returns that tag first with score 1 when no other key of the engine holds
\* the same vector.
C18_Searched(t) ==
    ReturnedOk(t, "search") /\ Len(args[t].floats) = Dim

C18_Stored(tag) ==
    /\ tag \in DOMAIN mapping.tag_to_label
    /\ mapping.tag_to_label[tag] \in Keys(index)

C18_OnlyMapped(t) ==
    LET results == ret[t].value
        q == args[t].floats
    IN /\ Len(results) <= args[t].k
       /\ \A i \in DOMAIN results :
            /\ C18_Stored(results[i].tag)
            /\ results[i].score =
                 1 - L2sq(index.vectors[mapping.tag_to_label[results[i].tag]], q)
            /\ \A pair \in retired :
                 pair[2] \notin DOMAIN mapping.tag_to_label => results[i].tag # pair[2]
       /\ \A i, j \in DOMAIN results : i < j => results[i].score >= results[j].score

C18_SearchResults ==
    \A t \in Threads : C18_Searched(t) =>
        /\ C18_OnlyMapped(t)
        /\ \A tag \in Tags :
             ( /\ C18_Stored(tag)
               /\ index.vectors[mapping.tag_to_label[tag]] = args[t].floats
               /\ \A key \in Keys(index) \ {mapping.tag_to_label[tag]} :
                    index.vectors[key] # args[t].floats )
             => /\ ret[t].value # <<>>
                /\ ret[t].value[1] = [tag |-> tag, score |-> 1]

\* C18 as stated: a search for the exact vector of a present tag returns
\* that tag with score 1.0 first.
C18_ExactMatchFirst ==
    \A t \in Threads : C18_Searched(t) =>
        \A tag \in Tags :
            C18_Stored(tag) /\ index.vectors[mapping.tag_to_label[tag]] = args[t].floats
            => /\ ret[t].value # <<>>
               /\ ret[t].value[1] = [tag |-> tag, score |-> 1]

\* after a tag was removed, a search for its vector with k = 2 has returned
\* the other tag, which holds another vector
C18_Witness ==
    \E t \in Threads :
        /\ C18_Searched(t)
        /\ \E pair \in retired : pair[2] \notin DOMAIN mapping.tag_to_label
        /\ Len(ret[t].value) = 1
        /\ ret[t].value[1].score < 1
        /\ args[t].k = 2

\* C19: after a successful load with target capacity c the capacity that
\* stats() reports is at least c: load leaves the store with capacity c when c
\* exceeds the capacity of the loaded snapshot and with the snapshot's
\* capacity otherwise, and no later call lowers it.
C19_Loaded == used'.loads = used.loads + 1 /\ used'.cap > 0

C19_SnapshotCapacity == capacity(Index_load(disk[IndexPath].bytes))

C19_LoadStep ==
    /\ Keys(index') = DOMAIN disk[IndexPath].bytes.vectors
    /\ capacity(index') = IF used'.cap > C19_SnapshotCapacity
                          THEN used'.cap
                          ELSE C19_SnapshotCapacity

C19_LoadCapacity ==
    /\ [][C19_Loaded => C19_LoadStep]_vars
    /\ [](used.cap > 0 =>
            /\ capacity(index) >= used.cap
            /\ \A t \in Threads :
                 ReturnedOk(t, "stats") => ret[t].value.capacity >= used.cap)

\* stats() has answered on a handle that load returned after it had to raise
\* the capacity of a snapshot holding vectors
C19_Witness ==
    \E t \in Threads :
        /\ ReturnedOk(t, "stats")
        /\ used.cap > 0
        /\ ret[t].value.total_vectors > 0
        /\ ret[t].value.total_vectors < used.cap
        /\ ret[t].value.capacity = used.cap

\* C20: a recovery run over rows of mixed size that completes returns the
\* number of rows whose byte length is dimension * 4, has inserted exactly
\* those rows (the store's count is larger by that number, each of them is
\* stored under its row id), and has counted the others as skipped; a row of
\* the wrong size changes nothing in the store and never ends the run in
\* failure.
C20_WellSized(t) ==
    { i \in 1..Len(args[t].rows) :
        Len(args[t].rows[i].floats) * F32Size + args[t].rows[i].extra = Dim * F32Size }

C20_Completed(t) ==
    LET rows == args[t].rows
        good == C20_WellSized(t)
    IN /\ ret[t].value.count = Cardinality(good)
       /\ ret[t].value.skipped = Len(rows) - Cardinality(good)
       /\ size(index) = size(snap[t].index) + Cardinality(good)
       /\ Keys(index) = Keys(snap[t].index) \cup { rows[i].id : i \in good }
       /\ \A i \in good : index.vectors[rows[i].id] = rows[i].floats
       /\ \A key \in Keys(snap[t].index) : index.vectors[key] = snap[t].index.vectors[key]

C20_MalformedRow(t) ==
    /\ pc[t] = "recover_loop"
    /\ loc[t].i \notin C20_WellSized(t)

C20_SkipStep(t) ==
    /\ index' = index
    /\ ret'[t].status # "err"
    /\ pc'[t] = "ret" <=> loc[t].i = Len(args[t].rows)

C21_TwoLockOps == {"upsert", "remove", "search", "get_vectors", "save"}

C21_InFlight(t) == pc[t] # "idle"

C21_CanStep(t) == ENABLED (Write(t) \/ Save(t) \/ Read(t) \/ Return(t))

C21_MappingFirst(t) ==
    /\ Holds(idxLock, t) /\ args[t].op \in C21_TwoLockOps => Holds(mapLock, t)
    /\ Holds(idxLock', t) /\ ~Holds(idxLock, t) /\ args'[t].op \in C21_TwoLockOps
         => Holds(mapLock, t)
    /\ args[t].op = "stats" => ~Holds(mapLock, t)

C21_NoDeadlock ==
    /\ [][\A t \in Threads : C21_MappingFirst(t)]_vars
    /\ [](\A t \in Threads : ~C21_InFlight(t) => ~Holds(mapLock, t) /\ ~Holds(idxLock, t))
    /\ []((\E t \in Threads : C21_InFlight(t)) =>
             \E t \in Threads : C21_InFlight(t) /\ C21_CanStep(t))

\* a writer waits for the engine lock with the mapping lock in hand while
\* another call holds the engine lock
C21_Witness ==
    \E t, u \in Threads :
        /\ t # u
        /\ Holds(mapLock, t) /\ ~Holds(idxLock, t)
        /\ ~CanLock(idxLock, "write")
        /\ Holds(idxLock, u)
        /\ pc[t] \in {"upsert_index_write", "remove_index_write"}

\* C22: the mapping file holds the two maps and no counter; a load that
\* succeeds returns the two maps of the file with the counter at the largest
\* label plus one, or at 0 when the file holds no label, and on the loaded
\* handle an upsert of a tag the mapping does not hold gives it a label that
\* no tag of the mapping has.
C22_Loaded == used'.loads = used.loads + 1 /\ used'.cap > 0

C22_Restored ==
    /\ mapping'.label_to_tag = disk[MapPath].bytes.label_to_tag
    /\ mapping'.tag_to_label = disk[MapPath].bytes.tag_to_label
    /\ mapping'.next_label = IF Labels(mapping') = {} THEN 0
                             ELSE Max(Labels(mapping')) + 1

C22_NewTag(t) ==
    /\ used.cap > 0
    /\ pc[t] = "upsert_loop"
    /\ args[t].tags[loc[t].i] \notin DOMAIN mapping.tag_to_label

C22_FreshLabel(t) ==
    LET tag == args[t].tags[loc[t].i]
    IN /\ tag \in DOMAIN mapping'.tag_to_label
       /\ mapping'.tag_to_label[tag] \notin Labels(mapping)
       /\ \A other \in DOMAIN mapping.tag_to_label :
            mapping'.tag_to_label[other] = mapping.tag_to_label[other]

C22_CounterRestored ==
    /\ [][C22_Loaded => C22_Restored]_vars
    /\ [][\A t \in Threads : C22_NewTag(t) /\ UpsertItem(t) => C22_FreshLabel(t)]_vars

\* on a handle loaded from a file that held labels, an upsert has given a
\* new tag its label
C22_Witness ==
    \E t \in Threads :
        /\ ReturnedOk(t, "upsert")
        /\ used.cap > 0
        /\ Labels(snap[t].mapping) # {}
        /\ \E l \in Labels(mapping) : l \notin Labels(snap[t].mapping)

\* C23: on a store made by new, as long as no upsert and no remove has
\* returned an error, the labels of the mapping are the keys of the engine,
\* and the count that stats() returns is the number of tags of the mapping.
C23_AllSucceeded ==
    /\ used.failed = 0
    /\ \A t \in Threads : args[t].op \in {"upsert", "remove"} => ret[t].status # "err"

C23_Lockstep ==
    C23_AllSucceeded =>
        /\ Labels(mapping) = Keys(index)
        /\ \A t \in Threads :
             ReturnedOk(t, "stats") =>
                 ret[t].value.total_vectors = Cardinality(DOMAIN mapping.tag_to_label)

\* stats() has answered after upserts and a remove that all succeeded, one
\* of them over an engine fault that it does not report
C23_Witness ==
    \E t \in Threads :
        /\ ReturnedOk(t, "stats")
        /\ C23_AllSucceeded
        /\ used.faults > 0
        /\ retired # {}
        /\ ret[t].value.total_vectors > 0

\* C24: when the engine rejects the removal of a tag in remove, or the
\* insert of a tag in upsert, the step that fails leaves that tag as it was:
\* it has a mapping entry after the step exactly if it had one before, with
\* the same label, and a vector stored under that label is still stored,
\* unchanged.
C24_Fails(t) ==
    /\ RemoveItem(t) \/ UpsertItem(t)
    /\ ret'[t].status = "err"

C24_EntryKept(t) ==
    LET tag == args[t].tags[loc[t].i]
    IN /\ tag \in DOMAIN mapping'.tag_to_label <=> tag \in DOMAIN mapping.tag_to_label
       /\ tag \in DOMAIN mapping.tag_to_label =>
            mapping'.tag_to_label[tag] = mapping.tag_to_label[tag]

C24_VectorKept(t) ==
    LET tag == args[t].tags[loc[t].i]
    IN tag \in DOMAIN mapping.tag_to_label /\ mapping.tag_to_label[tag] \in Keys(index) =>
         /\ mapping.tag_to_label[tag] \in Keys(index')
         /\ index'.vectors[mapping.tag_to_label[tag]] = index.vectors[mapping.tag_to_label[tag]]

C24_FailingItemUnchanged ==
    [][\A t \in Threads : C24_Fails(t) => C24_EntryKept(t) /\ C24_VectorKept(t)]_vars

\* C25: from the moment a save has serialized the mapping until it returns,
\* no upsert and no remove changes the mapping or the engine: the save holds
\* the mapping read lock all along, the bytes it writes to the mapping file
\* and to the engine file are images of the store as it was when the save
\* began, and a save that returns success has written both.
C25_Saving(t) == args[t].op = "save" /\ pc[t] # "idle"

C25_IndexImaged(t) ==
    \/ pc[t] \in {"save_index_create", "save_index_write", "save_index_rename"}
    \/ ReturnedOk(t, "save")

C25_SaveOneState ==
    /\ [](\A t \in Threads : C25_Saving(t) =>
            /\ Holds(mapLock, t)
            /\ mapping = snap[t].mapping
            /\ index = snap[t].index
            /\ C25_IndexImaged(t) => loc[t].data = Index_image(snap[t].index))
    /\ [][\A t \in Threads :
            /\ SaveMapWrite(t) => loc[t].data = serialize(snap[t].mapping)
            /\ SaveIndexWrite(t) => loc[t].data = Index_image(snap[t].index)
            /\ C25_Saving(t) => used'.writes = used.writes]_vars

\* a save of a store that holds a vector has returned success, and the
\* mapping lock it still holds keeps the next upsert or remove out
C25_Witness ==
    \E t, u \in Threads :
        /\ ReturnedOk(t, "save")
        /\ Keys(snap[t].index) # {}
        /\ pc[u] = "idle"
        /\ used.writes < limit.writes
        /\ ~CanLock(mapLock, "write")
        /\ retired # {}

\* C26: when two saves of the same store to the same paths have run
\* together, with no file system call failing for a reason of its own and no
\* crash, both return success and each final path holds one complete image,
\* the one that both saves wrote.
C26_BothReturned ==
    /\ \A t \in Threads : Returned(t, "save")
    /\ used.faults = 0
    /\ used.crashes = 0

C26_ConcurrentSavesSucceed ==
    C26_BothReturned =>
        /\ \A t \in Threads : ret[t] = Ok(None)
        /\ IsImage(disk[MapPath], "mapping")
        /\ disk[MapPath].bytes = serialize(mapping)
        /\ IsImage(disk[IndexPath], "index")
        /\ disk[IndexPath].bytes = Index_image(index)
====
